---- MODULE Spec2Model ----
(***************************************************************************)
(* Model of the slack-song-linker worker: the /slack/events handler, the   *)
(* signature check, the background dispatch handleMusicLinks with its      *)
(* fallback resolver, and the shared_songs table.                          *)
(*                                                                         *)
(* Strings that the code takes apart (message text, URLs) are sequences of *)
(* tokens; strings that the code only passes along are TLA+ strings.  Text *)
(* that is not ASCII in the source is written with an ASCII stand-in.      *)
(***************************************************************************)
EXTENDS Integers, Sequences, FiniteSets, TLC

VARIABLES
    env,            \* the worker's bindings (is YOUTUBE_API_KEY set), the bodies
                    \* and the error statuses song.link answers with and the
                    \* indices Math.random picks in this run
    inbox,          \* inbound requests not delivered yet, in delivery order
    last,           \* the request handled last and the response it got
    dispatches,     \* one record per handleMusicLinks promise given to waitUntil
    shared_songs    \* rows of the shared_songs table, in insertion order

vars == <<env, inbox, last, dispatches, shared_songs>>

----------------------------------------------------------------------------
(* Bounds of the model *)

\* Most deliveries of one workload that run concurrently.
MaxDeliveries == 2

\* Date.now() / 1000 at the time a request is handled.
Now == 1000

NULL == "NULL"

----------------------------------------------------------------------------
(* Message text and the URL extractor *)

\* An alternation that also accepts a domain that is no music platform.
PlatformDomains_AnyDomain ==
    {"open.spotify.com", "artist.bandcamp.com", "YOUTU.BE", "example.com"}

\* Tokens the alternation of MUSIC_URL_REGEX accepts as the domain.
PlatformDomains == {"open.spotify.com", "artist.bandcamp.com", "YOUTU.BE"}

Scheme == "https://"

IsSpace(tok) == tok = " "

\* /(https?:\/\/)?(domain)\/[^\s]+/ tried at position i: the index of the
\* last token of the match, 0 when there is none.
RECURSIVE RunEnd(_, _)
RunEnd(text, j) ==
    IF j + 1 <= Len(text) /\ ~IsSpace(text[j + 1]) THEN RunEnd(text, j + 1) ELSE j

MatchAt(text, i) ==
    LET p == IF text[i] = Scheme THEN i + 1 ELSE i
    IN  IF /\ p + 2 <= Len(text)
           /\ text[p] \in PlatformDomains
           /\ text[p + 1] = "/"
           /\ ~IsSpace(text[p + 2])
        THEN RunEnd(text, p + 2)
        ELSE 0

\* String.prototype.match with the g flag: every match, left to right, each
\* search resuming after the previous match.
RECURSIVE MatchFrom(_, _)
MatchFrom(text, i) ==
    IF i > Len(text) THEN <<>>
    ELSE LET e == MatchAt(text, i)
         IN  IF e = 0 THEN MatchFrom(text, i + 1)
             ELSE <<SubSeq(text, i, e)>> \o MatchFrom(text, e + 1)

MUSIC_URL_REGEX(text) == MatchFrom(text, 1)

\* url.replace(/^<|>$/g, "")
CleanUrl(url) ==
    LET a == IF Len(url) > 0 /\ url[1] = "<" THEN SubSeq(url, 2, Len(url)) ELSE url
    IN  IF Len(a) > 0 /\ a[Len(a)] = ">" THEN SubSeq(a, 1, Len(a) - 1) ELSE a

----------------------------------------------------------------------------
(* The extractor of the backfill script *)

\* The script's MUSIC_URL_REGEX ends in [^\s>]+ : the path stops before a
\* space and before ">".
RECURSIVE BackfillRunEnd(_, _)
BackfillRunEnd(text, j) ==
    IF j + 1 <= Len(text) /\ ~IsSpace(text[j + 1]) /\ text[j + 1] # ">"
    THEN BackfillRunEnd(text, j + 1) ELSE j

BackfillMatchAt(text, i) ==
    LET p == IF text[i] = Scheme THEN i + 1 ELSE i
    IN  IF /\ p + 2 <= Len(text)
           /\ text[p] \in PlatformDomains
           /\ text[p + 1] = "/"
           /\ ~IsSpace(text[p + 2]) /\ text[p + 2] # ">"
        THEN BackfillRunEnd(text, p + 2)
        ELSE 0

RECURSIVE BackfillMatchFrom(_, _)
BackfillMatchFrom(text, i) ==
    IF i > Len(text) THEN <<>>
    ELSE LET e == BackfillMatchAt(text, i)
         IN  IF e = 0 THEN BackfillMatchFrom(text, i + 1)
             ELSE <<SubSeq(text, i, e)>> \o BackfillMatchFrom(text, e + 1)

BackfillMatches(text) == BackfillMatchFrom(text, 1)

\* .split("|")[0]: the part before the first "|".
RECURSIVE BeforeBar(_)
BeforeBar(url) ==
    IF url = <<>> \/ Head(url) = "|" THEN <<>>
    ELSE <<Head(url)>> \o BeforeBar(Tail(url))

\* url.replace(/^<|>$/g, "").split("|")[0]
BackfillCleanUrl(url) == BeforeBar(CleanUrl(url))

\* The original_url values the script writes for one message: one per
\* distinct cleaned match (seenUrls).
BackfillUrls(text) ==
    {BackfillCleanUrl(BackfillMatches(text)[k]) : k \in DOMAIN BackfillMatches(text)}

----------------------------------------------------------------------------
(* Message texts *)

Url1 == <<"https://", "open.spotify.com", "/", "track1">>
Url2 == <<"artist.bandcamp.com", "/", "album2">>

TPlain == <<"listen", " ">> \o Url1
TWrapped == <<"<">> \o Url1 \o <<">">>
TLabel == <<"<">> \o Url1 \o <<"|", "Track", ">">>
TTwice == Url1 \o <<" ">> \o Url1
TTwo == Url1 \o <<" ", "and", " ">> \o Url2
TNone == <<"hello", " ", "world">>

\* A link to a domain that is no music platform, and a platform domain that no
\* path follows.
TOther == <<"see", " ", "https://", "example.com", "/", "track1">>
TBare == <<"open.spotify.com", " ", "rocks">>

Texts == {TPlain, TWrapped, TLabel, TTwice, TTwo, TNone, TOther, TBare}

----------------------------------------------------------------------------
(* Inbound requests *)

\* message.text is absent, a string, or (the body being any JSON) no string.
MessageOf(kind, text, ts) ==
    [type |-> "message", channel |-> "C1", user |-> "U1", ts |-> ts,
     textKind |-> kind, text |-> text, bot_id |-> FALSE]

Messages ==
    {MessageOf("string", t, "t1") : t \in Texts \cup {<<>>}}
    \cup {MessageOf("absent", <<>>, "t1"), MessageOf("number", <<>>, "t1"),
          MessageOf("string", TPlain, "t2")}

NoEvent ==
    [type |-> NULL, channel |-> NULL, user |-> NULL, ts |-> NULL,
     textKind |-> "absent", text |-> <<>>, bot_id |-> FALSE]

BodyOf(json, type, challenge, event) ==
    [json |-> json, type |-> type, challenge |-> challenge, event |-> event]

MessageBodies == {BodyOf(TRUE, "event_callback", NULL, m) : m \in Messages}

OtherBodies ==
    {BodyOf(FALSE, NULL, NULL, NoEvent),
     BodyOf(TRUE, "url_verification", "challenge-abc", NoEvent),
     BodyOf(TRUE, "url_verification", "3eZbrw1aB", NoEvent),
     BodyOf(TRUE, "app_rate_limited", NULL, NoEvent),
     BodyOf(TRUE, "event_callback", NULL, NoEvent),
     BodyOf(TRUE, "event_callback", NULL,
            [MessageOf("string", TPlain, "t1") EXCEPT !.type = "reaction_added"]),
     BodyOf(TRUE, "event_callback", NULL,
            [MessageOf("string", TPlain, "t1") EXCEPT !.bot_id = TRUE])}

Bodies == MessageBodies \cup OtherBodies

\* X-Slack-Request-Timestamp values: now, 300, 301 and 302 s old, 301 s ahead.
Timestamps == {Now, Now - 300, Now - 301, Now - 302, Now + 301}

\* sigOK: X-Slack-Signature equals the HMAC of v0:timestamp:body.
Requests ==
    [hasTimestamp : BOOLEAN, timestamp : Timestamps,
     hasSignature : BOOLEAN, sigOK : BOOLEAN, body : Bodies]

GoodRequest(body) ==
    [hasTimestamp |-> TRUE, timestamp |-> Now, hasSignature |-> TRUE,
     sigOK |-> TRUE, body |-> body]

----------------------------------------------------------------------------
(* The /slack/events handler *)

Abs(n) == IF n < 0 THEN 0 - n ELSE n

\* The replay window of verifySlackRequest, in seconds.
MaxAge == 300

\* verifySlackRequest refusing a timestamp at the edge of the window.
verifySlackRequest_EdgeOut(request) ==
    IF ~request.hasTimestamp \/ ~request.hasSignature THEN FALSE
    ELSE IF Abs(Now - request.timestamp) >= MaxAge THEN FALSE
    ELSE request.sigOK

\* verifySlackRequest without the comparison of the two signatures.
verifySlackRequest_NoCompare(request) ==
    IF ~request.hasTimestamp \/ ~request.hasSignature THEN FALSE
    ELSE IF Abs(Now - request.timestamp) > MaxAge THEN FALSE
    ELSE TRUE

verifySlackRequest(request) ==
    IF ~request.hasTimestamp \/ ~request.hasSignature THEN FALSE
    ELSE IF Abs(Now - request.timestamp) > MaxAge THEN FALSE
    ELSE request.sigOK

ResponseOf(status, body) == [status |-> status, body |-> body]

NoResponse == ResponseOf(0, <<>>)

\* The handler without the test of the bot-origin marker.
HandleRequest_NoBotTest(request) ==
    IF ~request.body.json
    THEN [response |-> ResponseOf(500, <<"Internal Server Error">>), dispatch |-> FALSE,
          uncaught |-> TRUE]
    ELSE IF ~verifySlackRequest(request)
    THEN [response |-> ResponseOf(401, <<"Invalid signature">>), dispatch |-> FALSE,
          uncaught |-> FALSE]
    ELSE IF request.body.type = "url_verification"
    THEN [response |-> ResponseOf(200, <<"challenge", request.body.challenge>>),
          dispatch |-> FALSE, uncaught |-> FALSE]
    ELSE [response |-> ResponseOf(200, <<"OK">>),
          dispatch |-> /\ request.body.type = "event_callback"
                       /\ request.body.event.type = "message",
          uncaught |-> FALSE]

\* The handler without the branch for url_verification.
HandleRequest_NoChallenge(request) ==
    IF ~request.body.json
    THEN [response |-> ResponseOf(500, <<"Internal Server Error">>), dispatch |-> FALSE,
          uncaught |-> TRUE]
    ELSE IF ~verifySlackRequest(request)
    THEN [response |-> ResponseOf(401, <<"Invalid signature">>), dispatch |-> FALSE,
          uncaught |-> FALSE]
    ELSE [response |-> ResponseOf(200, <<"OK">>),
          dispatch |-> /\ request.body.type = "event_callback"
                       /\ request.body.event.type = "message"
                       /\ ~request.body.event.bot_id,
          uncaught |-> FALSE]

\* The handler returning OK only when it hands nothing to waitUntil.
HandleRequest_NoAck(request) ==
    IF ~request.body.json
    THEN [response |-> ResponseOf(500, <<"Internal Server Error">>), dispatch |-> FALSE,
          uncaught |-> TRUE]
    ELSE IF ~verifySlackRequest(request)
    THEN [response |-> ResponseOf(401, <<"Invalid signature">>), dispatch |-> FALSE,
          uncaught |-> FALSE]
    ELSE IF request.body.type = "url_verification"
    THEN [response |-> ResponseOf(200, <<"challenge", request.body.challenge>>),
          dispatch |-> FALSE, uncaught |-> FALSE]
    ELSE IF /\ request.body.type = "event_callback"
            /\ request.body.event.type = "message"
            /\ ~request.body.event.bot_id
    THEN [response |-> ResponseOf(404, <<"404 Not Found">>), dispatch |-> TRUE,
          uncaught |-> FALSE]
    ELSE [response |-> ResponseOf(200, <<"OK">>), dispatch |-> FALSE, uncaught |-> FALSE]

\* The handler's result: the response, and whether handleMusicLinks was
\* handed to waitUntil.  JSON.parse runs first; when it throws, nothing in the
\* handler catches it (uncaught) and the framework's default error handler
\* answers 500.
HandleRequest(request) ==
    IF ~request.body.json
    THEN [response |-> ResponseOf(500, <<"Internal Server Error">>), dispatch |-> FALSE,
          uncaught |-> TRUE]
    ELSE IF ~verifySlackRequest(request)
    THEN [response |-> ResponseOf(401, <<"Invalid signature">>), dispatch |-> FALSE,
          uncaught |-> FALSE]
    ELSE IF request.body.type = "url_verification"
    THEN [response |-> ResponseOf(200, <<"challenge", request.body.challenge>>),
          dispatch |-> FALSE, uncaught |-> FALSE]
    ELSE [response |-> ResponseOf(200, <<"OK">>),
          dispatch |-> /\ request.body.type = "event_callback"
                       /\ request.body.event.type = "message"
                       /\ ~request.body.event.bot_id,
          uncaught |-> FALSE]

----------------------------------------------------------------------------
(* handleMusicLinks: the state of one dispatch *)

NoData == [youtube |-> NULL, youtubeMusic |-> NULL, entity |-> FALSE]

\* The part of handleMusicLinks that runs inside the call, before its first
\* await: the text check and the match.  A text that is no string has no
\* match method, and the promise rejects.
StartDispatch(request, response) ==
    LET message == request.body.event
        matches == IF message.textKind = "string"
                   THEN MUSIC_URL_REGEX(message.text) ELSE <<>>
        pc0 == IF message.textKind = "number" THEN "failed"
               ELSE IF message.textKind = "absent" \/ message.text = <<>> THEN "done"
               ELSE IF matches = <<>> THEN "done"
               ELSE "lookup"
    IN  [request |-> request, message |-> message, ack |-> response,
         matches |-> matches, i |-> 1, pc |-> pc0,
         status |-> 0, data |-> NoData, searchQuery |-> <<>>, youtubeUrl |-> NULL,
         slackError |-> NULL, refused |-> FALSE,
         calls |-> <<>>, posts |-> <<>>, lookups |-> 0,
         replied |-> {}, stored |-> {}, thrown |-> {}]

----------------------------------------------------------------------------
(* Outbound services, as the dispatch sees them *)

\* song.link statuses with response.ok false.
FailStatuses == {429, 500}

\* JSON bodies of a successful lookup: the two video-platform links and whether
\* entitiesByUniqueId holds the primary entity.
LookupBodies ==
    [youtube : {NULL, "https://www.youtube.com/watch?v=yt1"},
     youtubeMusic : {NULL, "https://music.youtube.com/watch?v=ym1"},
     entity : BOOLEAN]

PageUrl == "https://song.link/s/abc"

\* The video link taken from youtubeMusic before youtube.
YoutubeUrlOf_MusicFirst(data) ==
    IF data.youtubeMusic # NULL THEN data.youtubeMusic ELSE data.youtube

\* data.linksByPlatform?.youtube?.url || data.linksByPlatform?.youtubeMusic?.url
YoutubeUrlOf(data) ==
    IF data.youtube # NULL THEN data.youtube ELSE data.youtubeMusic

\* entity ? `${entity.artistName} - ${entity.title}` : undefined
SongTitleOf(data) ==
    IF data.entity THEN <<"Artist", " - ", "Title">> ELSE <<>>

\* <title> contents of the fetched page, as tokens; <<>> is a page without one.
PageTitles ==
    {<<>>,
     <<"Song Title - Artist", " | ", "Spotify">>,
     <<"abc">>}

PlatformNames == {"Spotify", "Apple Music", "SoundCloud", "Bandcamp", "TIDAL"}

CharLen(tok) ==
    CASE tok = "abc" -> 3
      [] tok = "Song Title - Artist" -> 19
      [] OTHER -> 1

RECURSIVE TextLen(_)
TextLen(t) == IF t = <<>> THEN 0 ELSE CharLen(Head(t)) + TextLen(Tail(t))

\* The first replace of extractSearchQuery: cut at the first separator that a
\* platform name follows.
RECURSIVE StripSuffix(_, _)
StripSuffix(title, k) ==
    IF k >= Len(title) THEN title
    ELSE IF title[k] \in {" - ", " | ", " on "} /\ title[k + 1] \in PlatformNames
         THEN SubSeq(title, 1, k - 1)
         ELSE StripSuffix(title, k + 1)

\* extractSearchQuery accepting a cleaned title of 3 characters.
SearchQueryOf_ThreeChars(title) ==
    LET t == StripSuffix(title, 1)
    IN  IF title # <<>> /\ TextLen(t) >= 3 THEN t ELSE <<>>

\* What extractSearchQuery returns for a page: the cleaned title when it is
\* longer than 3 characters, otherwise null (here <<>>).
SearchQueryOf(title) ==
    LET t == StripSuffix(title, 1)
    IN  IF title # <<>> /\ TextLen(t) > 3 THEN t ELSE <<>>

\* Outcomes of the page fetch: it throws, answers with an error status, or
\* returns a page.
PageOutcomes ==
    {[kind |-> "throw", title |-> <<>>], [kind |-> "notOk", title |-> <<>>]}
    \cup {[kind |-> "html", title |-> t] : t \in PageTitles}

VideoUrl == "https://www.youtube.com/watch?v=vid1"

\* Outcomes of the video search (searchYouTube's return value).
SearchOutcomes ==
    {[kind |-> "throw", url |-> NULL], [kind |-> "notOk", url |-> NULL],
     [kind |-> "noItems", url |-> NULL], [kind |-> "item", url |-> VideoUrl]}

fallbackMessages ==
    <<"Well, that didn't go according to plan. [...] Hold please... okay, got it:",
      "The easy way is officially broken. [...] We found this:",
      "Seriously? The upstream API just gave up on us. [...] our only purpose in life:",
      "The API left us on read. [...] Got it:">>

----------------------------------------------------------------------------
(* Reply composition: a text is a sequence of lines, a line a sequence of parts *)

\* The reply with the video link on the line of the canonical link.
ReplyText_OneLine(songLink, youtubeUrl) ==
    IF youtubeUrl # NULL
    THEN << <<":notes: <", songLink, ">", " ", youtubeUrl>> >>
    ELSE << <<":notes: <", songLink, ">">> >>

ReplyText(songLink, youtubeUrl) ==
    IF youtubeUrl # NULL
    THEN << <<":notes: <", songLink, ">">>, <<youtubeUrl>> >>
    ELSE << <<":notes: <", songLink, ">">> >>

FallbackText(randomMessage, youtubeUrl) == << <<randomMessage>>, <<youtubeUrl>> >>

\* The notice that does not name the status.
ErrorText_NoStatus(status) ==
    IF status = 429
    THEN << <<"we got rate limited again. sigh">> >>
    ELSE << <<"Sorry, I couldn't process that music link. [...]">> >>

ErrorText(status) ==
    IF status = 429
    THEN << <<"we got rate limited again. sigh">> >>
    ELSE << <<"Sorry, I couldn't process that music link. The song.link API returned an error (",
              ToString(status), "). [...]">> >>

SendFailureText(error) ==
    << <<"Error: ", IF error # NULL THEN error ELSE "Failed to post message">> >>

\* A post to the channel, outside the thread of the message.
Payload_TopLevel(message, text, unfurl) ==
    [channel |-> message.channel, text |-> text, thread_ts |-> NULL,
     unfurl_links |-> unfurl, unfurl_media |-> unfurl]

\* The JSON body of a chat.postMessage call; unfurl FALSE stands for a body
\* without the unfurl_links and unfurl_media keys.
Payload(message, text, unfurl) ==
    [channel |-> message.channel, text |-> text, thread_ts |-> message.ts,
     unfurl_links |-> unfurl, unfurl_media |-> unfurl]

----------------------------------------------------------------------------
(* The shared_songs table *)

\* UNIQUE(channel, message_ts, original_url)
UniqueKey(row) == <<row.channel, row.message_ts, row.original_url>>

SharedSong(message, cleanUrl, songlink_url, youtube_url, title) ==
    [original_url |-> cleanUrl, songlink_url |-> songlink_url,
     youtube_url |-> youtube_url, title |-> title, shared_by |-> message.user,
     channel |-> message.channel, message_ts |-> message.ts]

\* INSERT OR REPLACE: the row with the key of the new one gives way to it.
InsertOrReplace(rows, song) ==
    IF \E k \in DOMAIN rows : UniqueKey(rows[k]) = UniqueKey(song)
    THEN [rows |-> [k \in DOMAIN rows |->
                       IF UniqueKey(rows[k]) = UniqueKey(song) THEN song ELSE rows[k]],
          result |-> "inserted"]
    ELSE [rows |-> Append(rows, song), result |-> "inserted"]

\* The insert into a table that has no UNIQUE constraint.
InsertAlways(rows, song) == [rows |-> Append(rows, song), result |-> "inserted"]

\* INSERT OR IGNORE INTO shared_songs: the table and what the statement did.
InsertOrIgnore(rows, song) ==
    IF \E k \in DOMAIN rows : UniqueKey(rows[k]) = UniqueKey(song)
    THEN [rows |-> rows, result |-> "ignored"]
    ELSE [rows |-> Append(rows, song), result |-> "inserted"]

\* storeSongShare without its try/catch: a database error leaves the function.
storeSongShare_NoCatch(rows, song, dbOK) ==
    IF dbOK
    THEN [rows |-> InsertOrIgnore(rows, song).rows,
          result |-> InsertOrIgnore(rows, song).result, threw |-> FALSE]
    ELSE [rows |-> rows, result |-> "failed", threw |-> TRUE]

\* storeSongShare: the statement, or a database error that the function's own
\* try/catch logs and swallows.  threw: does storeSongShare itself throw.
storeSongShare(rows, song, dbOK) ==
    IF dbOK
    THEN [rows |-> InsertOrIgnore(rows, song).rows,
          result |-> InsertOrIgnore(rows, song).result, threw |-> FALSE]
    ELSE [rows |-> rows, result |-> "failed", threw |-> FALSE]

----------------------------------------------------------------------------
(* Workloads *)

MessageRequest(text, ts) ==
    GoodRequest(BodyOf(TRUE, "event_callback", NULL, MessageOf("string", text, ts)))

\* Events that the chat service delivers again (a retry of the same event).
RetryRequests == {MessageRequest(TPlain, "t1")}

\* Two different requests in flight together.
MixedPairs ==
    {<<MessageRequest(TLabel, "t1"), MessageRequest(TLabel, "t1")>>,
     <<MessageRequest(TPlain, "t1"), MessageRequest(TPlain, "t2")>>,
     <<MessageRequest(TPlain, "t1"), MessageRequest(TTwice, "t1")>>,
     <<MessageRequest(TPlain, "t1"), [MessageRequest(TPlain, "t1") EXCEPT !.sigOK = FALSE]>>}

\* A workload is one request of any kind, n deliveries of one event, or a
\* mixed pair.
SingleWorkloads == {<<r>> : r \in Requests}

ConcurrentWorkloads ==
    {[k \in 1..n |-> r] : n \in 2..MaxDeliveries, r \in RetryRequests} \cup MixedPairs

\* What song.link answers for the URL of a concurrent workload: the same body
\* at every delivery of the run that succeeds, and 500 at every one that fails.
RetryBodies ==
    {[youtube |-> "https://www.youtube.com/watch?v=yt1",
      youtubeMusic |-> "https://music.youtube.com/watch?v=ym1", entity |-> TRUE],
     [youtube |-> NULL, youtubeMusic |-> NULL, entity |-> FALSE]}

Init ==
    /\ \/ /\ inbox \in SingleWorkloads
          /\ env \in [YOUTUBE_API_KEY : BOOLEAN, bodies : {LookupBodies},
                       failures : {FailStatuses},
                       random : {1..Len(fallbackMessages)}]
       \/ /\ inbox \in ConcurrentWorkloads
          /\ env \in [YOUTUBE_API_KEY : BOOLEAN, bodies : {{b} : b \in RetryBodies},
                       failures : {{500}},
                       random : {{1}}]
    /\ last = [request |-> GoodRequest(BodyOf(FALSE, NULL, NULL, NoEvent)),
               response |-> NoResponse, uncaught |-> FALSE]
    /\ dispatches = <<>>
    /\ shared_songs = <<>>

\* app.post("/slack/events"): the whole handler.  It touches no shared state
\* before its last await, so it is one step.
Deliver ==
    /\ inbox # <<>>
    /\ LET request == Head(inbox)
           result == HandleRequest(request)
       IN  /\ last' = [request |-> request, response |-> result.response,
                        uncaught |-> result.uncaught]
           /\ dispatches' = IF result.dispatch
                            THEN Append(dispatches, StartDispatch(request, result.response))
                            ELSE dispatches
    /\ inbox' = Tail(inbox)
    /\ UNCHANGED <<env, shared_songs>>

----------------------------------------------------------------------------
(* handleMusicLinks: one step per awaited call of the loop body *)

Running(d) == d \in DOMAIN dispatches

CurrentUrl(D) == CleanUrl(D.matches[D.i])

Log(D, call) == Append(D.calls, call)

\* A catch that never hands control back to the loop.
Catch_Hangs(D) == [D EXCEPT !.pc = "hung", !.thrown = @ \cup {D.i}]

\* A catch that starts the pass of the same URL again.
Catch_Retries(D) == [D EXCEPT !.pc = "lookup", !.thrown = @ \cup {D.i}]

\* A catch around the whole loop: the first error ends the dispatch.
Catch_EndsLoop(D) == [D EXCEPT !.pc = "done", !.thrown = @ \cup {D.i}]

\* The catch of the loop body: the error is logged and the loop goes on.
Catch(D) == [D EXCEPT !.pc = "next", !.thrown = @ \cup {D.i}]

\* await fetch(apiUrl), with the read of its body (response.text() or
\* response.json(), lines 222-311).  A call that throws lands in the catch.
Lookup(d) ==
    /\ Running(d)
    /\ dispatches[d].pc = "lookup"
    /\ LET D == [dispatches[d] EXCEPT !.calls = Log(dispatches[d], "lookup"),
                                      !.lookups = @ + 1]
       IN  \/ dispatches' = [dispatches EXCEPT ![d] = Catch(D)]
           \/ \E status \in env.failures :
                dispatches' = [dispatches EXCEPT ![d] =
                    [D EXCEPT !.status = status,
                              !.pc = IF env.YOUTUBE_API_KEY THEN "page" ELSE "errpost"]]
           \/ \E data \in env.bodies :
                dispatches' = [dispatches EXCEPT ![d] =
                    [D EXCEPT !.status = 200, !.data = data, !.pc = "store"]]
    /\ UNCHANGED <<env, inbox, last, shared_songs>>

\* await extractSearchQuery(cleanUrl): it returns null when the fetch throws,
\* the page is not ok, or no usable title is found.
ExtractSearchQuery(d) ==
    /\ Running(d)
    /\ dispatches[d].pc = "page"
    /\ \E page \in PageOutcomes :
         LET query == IF page.kind = "html" THEN SearchQueryOf(page.title) ELSE <<>>
         IN  dispatches' = [dispatches EXCEPT ![d] =
                 [@ EXCEPT !.calls = Append(@, "page"),
                           !.searchQuery = query,
                           !.pc = IF query # <<>> THEN "search" ELSE "errpost"]]
    /\ UNCHANGED <<env, inbox, last, shared_songs>>

\* The search without the test of its result: the fallback reply and the
\* fallback record follow even when no video was found.
SearchYouTube_NoResultTest(d) ==
    /\ Running(d)
    /\ dispatches[d].pc = "search"
    /\ \E found \in SearchOutcomes :
         dispatches' = [dispatches EXCEPT ![d] =
             [@ EXCEPT !.calls = Append(@, "search"),
                       !.youtubeUrl = found.url,
                       !.pc = "fbpost"]]
    /\ UNCHANGED <<env, inbox, last, shared_songs>>

\* await searchYouTube(searchQuery, youtubeApiKey)
SearchYouTube(d) ==
    /\ Running(d)
    /\ dispatches[d].pc = "search"
    /\ \E found \in SearchOutcomes :
         dispatches' = [dispatches EXCEPT ![d] =
             [@ EXCEPT !.calls = Append(@, "search"),
                       !.youtubeUrl = found.url,
                       !.pc = IF found.url # NULL THEN "fbpost" ELSE "errpost"]]
    /\ UNCHANGED <<env, inbox, last, shared_songs>>

\* Answers of chat.postMessage to a post whose response the code does not
\* read: the call throws, or it returns, with a body that says ok or not ok.
UnreadOutcomes == {"throw", "ok", "notOk"}

\* The fallback reply (lines 244-259); its response is not looked at.
PostFallback(d) ==
    /\ Running(d)
    /\ dispatches[d].pc = "fbpost"
    /\ \E r \in env.random, answer \in UnreadOutcomes :
         LET D == [dispatches[d] EXCEPT
                      !.calls = Append(@, "post:fallback"),
                      !.posts = Append(@, Payload(dispatches[d].message,
                                   FallbackText(fallbackMessages[r], dispatches[d].youtubeUrl),
                                   TRUE))]
         IN  dispatches' = [dispatches EXCEPT ![d] =
                 CASE answer = "throw" -> Catch(D)
                   [] answer = "ok" ->
                        [D EXCEPT !.pc = "fbstore", !.replied = @ \cup {CurrentUrl(D)}]
                   [] answer = "notOk" -> [D EXCEPT !.pc = "fbstore", !.refused = TRUE]]
    /\ UNCHANGED <<env, inbox, last, shared_songs>>

\* A store call after which the pass ends, whatever was to follow it.
Store_EndsPass(d, song, then) ==
    \E dbOK \in BOOLEAN :
        LET D == dispatches[d]
            done == storeSongShare(shared_songs, song, dbOK)
            E == [D EXCEPT !.calls = Log(D, IF done.result = "failed"
                                            THEN "store:failed" ELSE "store"),
                           !.stored = IF done.result = "failed" THEN @
                                      ELSE @ \cup {song.original_url}]
        IN  /\ shared_songs' = done.rows
            /\ dispatches' = [dispatches EXCEPT ![d] =
                   IF done.threw THEN Catch(E) ELSE [E EXCEPT !.pc = "next"]]

\* One call of storeSongShare by dispatch d, then on to pc `then`.
Store(d, song, then) ==
    \E dbOK \in BOOLEAN :
        LET D == dispatches[d]
            done == storeSongShare(shared_songs, song, dbOK)
            E == [D EXCEPT !.calls = Log(D, IF done.result = "failed"
                                            THEN "store:failed" ELSE "store"),
                           !.stored = IF done.result = "failed" THEN @
                                      ELSE @ \cup {song.original_url}]
        IN  /\ shared_songs' = done.rows
            /\ dispatches' = [dispatches EXCEPT ![d] =
                   IF done.threw THEN Catch(E) ELSE [E EXCEPT !.pc = then]]

\* The store of the fallback share (lines 262-271), then continue.
StoreFallback(d) ==
    /\ Running(d)
    /\ dispatches[d].pc = "fbstore"
    /\ LET D == dispatches[d]
       IN  Store(d, SharedSong(D.message, CurrentUrl(D), NULL, D.youtubeUrl,
                               D.searchQuery), "next")
    /\ UNCHANGED <<env, inbox, last>>

\* The error notice (lines 277-295); its response is not looked at.
PostError(d) ==
    /\ Running(d)
    /\ dispatches[d].pc = "errpost"
    /\ \E answer \in UnreadOutcomes :
         LET D == [dispatches[d] EXCEPT
                      !.calls = Append(@, "post:error"),
                      !.posts = Append(@, Payload(dispatches[d].message,
                                   ErrorText(dispatches[d].status), FALSE))]
         IN  dispatches' = [dispatches EXCEPT ![d] =
                 CASE answer = "throw" -> Catch(D)
                   [] answer = "ok" -> [D EXCEPT !.pc = "next"]
                   [] answer = "notOk" -> [D EXCEPT !.pc = "next", !.refused = TRUE]]
    /\ UNCHANGED <<env, inbox, last, shared_songs>>

\* The store of a resolved share (lines 314-322).
StoreResolved(d) ==
    /\ Running(d)
    /\ dispatches[d].pc = "store"
    /\ LET D == dispatches[d]
       IN  Store(d, SharedSong(D.message, CurrentUrl(D), PageUrl,
                               YoutubeUrlOf(D.data), SongTitleOf(D.data)), "post")
    /\ UNCHANGED <<env, inbox, last>>

\* Answers of chat.postMessage to the reply: the call throws, the HTTP status
\* is an error, or the body says ok or not ok (with or without an error).
SlackOutcomes ==
    {[kind |-> "throw", error |-> NULL], [kind |-> "httpError", error |-> NULL],
     [kind |-> "ok", error |-> NULL], [kind |-> "notOk", error |-> NULL],
     [kind |-> "notOk", error |-> "channel_not_found"]}

\* The reply to a resolved share (lines 325-356).
PostReply(d) ==
    /\ Running(d)
    /\ dispatches[d].pc = "post"
    /\ \E answer \in SlackOutcomes :
         LET D == [dispatches[d] EXCEPT
                      !.calls = Append(@, "post:reply"),
                      !.posts = Append(@, Payload(dispatches[d].message,
                                   ReplyText(PageUrl, YoutubeUrlOf(dispatches[d].data)),
                                   TRUE))]
         IN  dispatches' = [dispatches EXCEPT ![d] =
                 CASE answer.kind = "throw" -> Catch(D)
                   [] answer.kind = "httpError" -> [D EXCEPT !.pc = "next"]
                   [] answer.kind = "ok" ->
                        [D EXCEPT !.pc = "next", !.replied = @ \cup {CurrentUrl(D)}]
                   [] answer.kind = "notOk" ->
                        [D EXCEPT !.pc = "notice", !.slackError = answer.error]]
    /\ UNCHANGED <<env, inbox, last, shared_songs>>

\* A notice whose own response is acted on: a notice that returned is
\* followed by another one.
PostSendFailure_Chains(d) ==
    /\ Running(d)
    /\ dispatches[d].pc = "notice"
    /\ \E threw \in BOOLEAN :
         LET D == [dispatches[d] EXCEPT
                      !.calls = Append(@, "post:sendfail"),
                      !.posts = Append(@, Payload(dispatches[d].message,
                                   SendFailureText(dispatches[d].slackError), FALSE))]
         IN  dispatches' = [dispatches EXCEPT ![d] =
                 IF threw THEN Catch(D) ELSE [D EXCEPT !.pc = "notice"]]
    /\ UNCHANGED <<env, inbox, last, shared_songs>>

\* The notice that the reply was refused (lines 358-369); its response is not
\* looked at.
PostSendFailure(d) ==
    /\ Running(d)
    /\ dispatches[d].pc = "notice"
    /\ \E threw \in BOOLEAN :
         LET D == [dispatches[d] EXCEPT
                      !.calls = Append(@, "post:sendfail"),
                      !.posts = Append(@, Payload(dispatches[d].message,
                                   SendFailureText(dispatches[d].slackError), FALSE))]
         IN  dispatches' = [dispatches EXCEPT ![d] =
                 IF threw THEN Catch(D) ELSE [D EXCEPT !.pc = "next"]]
    /\ UNCHANGED <<env, inbox, last, shared_songs>>

\* The end of one pass of the loop body (continue, the end of the try, or the
\* catch): the block's bindings go, and the loop takes the next match or ends.
NextUrl(d) ==
    /\ Running(d)
    /\ dispatches[d].pc = "next"
    /\ dispatches' = [dispatches EXCEPT ![d] =
           [@ EXCEPT !.i = @ + 1,
                     !.pc = IF dispatches[d].i < Len(dispatches[d].matches)
                            THEN "lookup" ELSE "done",
                     !.status = 0, !.data = NoData, !.searchQuery = <<>>,
                     !.youtubeUrl = NULL, !.slackError = NULL,
                     !.refused = FALSE,
                     !.calls = <<>>, !.posts = <<>>]]
    /\ UNCHANGED <<env, inbox, last, shared_songs>>

Step(d) ==
    \/ Lookup(d)
    \/ ExtractSearchQuery(d)
    \/ SearchYouTube(d)
    \/ PostFallback(d)
    \/ StoreFallback(d)
    \/ PostError(d)
    \/ StoreResolved(d)
    \/ PostReply(d)
    \/ PostSendFailure(d)
    \/ NextUrl(d)

Next ==
    \/ Deliver
    \/ \E d \in 1..MaxDeliveries : Step(d)

Spec == Init /\ [][Next]_vars

\* Every awaited call settles (it returns or throws) and the runtime then
\* resumes the dispatch that awaited it: while some dispatch has a step to
\* take, a step of some dispatch is taken.
FairSpec == Spec /\ WF_vars(\E d \in 1..MaxDeliveries : Step(d))

----------------------------------------------------------------------------
(* Properties *)

Handled == last.response # NoResponse

\* The three ways a request fails verification, as the claim states them.
Unverified(request) ==
    \/ ~request.hasTimestamp
    \/ ~request.hasSignature
    \/ request.timestamp - Now > 300
    \/ Now - request.timestamp > 300
    \/ ~request.sigOK

RowsWithKey(channel, ts, url) ==
    {k \in DOMAIN shared_songs :
        /\ shared_songs[k].channel = channel
        /\ shared_songs[k].message_ts = ts
        /\ shared_songs[k].original_url = url}

Has(calls, call) == \E k \in DOMAIN calls : calls[k] = call

\* C1: the table never holds two rows with the same (channel, message
\* timestamp, original URL), and after every store call for a key that the
\* database completed, by whichever dispatch, exactly one row has that key.
C1_OneRecordPerKey ==
    /\ \A j, k \in DOMAIN shared_songs :
         ( /\ shared_songs[j].channel = shared_songs[k].channel
           /\ shared_songs[j].message_ts = shared_songs[k].message_ts
           /\ shared_songs[j].original_url = shared_songs[k].original_url ) => j = k
    /\ \A d \in DOMAIN dispatches : \A url \in dispatches[d].stored :
         Cardinality(RowsWithKey(dispatches[d].message.channel,
                                 dispatches[d].message.ts, url)) = 1

\* C1 witness: two dispatches of the same event have both recorded the same URL.
C1_Witness ==
    \E d, e \in DOMAIN dispatches :
        /\ d # e
        /\ dispatches[d].message = dispatches[e].message
        /\ dispatches[d].stored # {}
        /\ dispatches[d].stored = dispatches[e].stored
        /\ Len(shared_songs) = 1

RateLimitNotice == << <<"we got rate limited again. sigh">> >>

\* C2: at the end of the pass for a URL whose lookup answered 429,
\* with or without the video-search credential, the one post of the pass is the
\* rate-limit notice and the pass made no store call.
C2_RateLimitAlwaysNotice ==
    \A d \in DOMAIN dispatches :
        (dispatches[d].pc = "next" /\ dispatches[d].status = 429) =>
            /\ Len(dispatches[d].posts) = 1
            /\ dispatches[d].posts[1].text = RateLimitNotice
            /\ ~Has(dispatches[d].calls, "store")
            /\ ~Has(dispatches[d].calls, "store:failed")

\* The same for the passes in which the fallback found no video (no
\* credential, no query from the page, or no search result): this much holds.
RateLimitNoticeWithoutFallback ==
    \A d \in DOMAIN dispatches :
        ( /\ dispatches[d].pc = "next"
          /\ dispatches[d].status = 429
          /\ dispatches[d].youtubeUrl = NULL ) =>
            /\ Len(dispatches[d].posts) = 1
            /\ dispatches[d].posts[1].text = RateLimitNotice
            /\ ~Has(dispatches[d].calls, "store")
            /\ ~Has(dispatches[d].calls, "store:failed")

\* With the credential set, a 429 whose fallback search found nothing has
\* ended in the notice.
RateLimitNoticeAfterEmptyFallback ==
    \E d \in DOMAIN dispatches :
        /\ env.YOUTUBE_API_KEY
        /\ dispatches[d].pc = "next"
        /\ dispatches[d].status = 429
        /\ dispatches[d].calls = <<"lookup", "page", "search", "post:error">>

\* C3: every handled request that fails verification is answered 401,
\* whatever its body.
C3_UnverifiedGets401 ==
    (Handled /\ Unverified(last.request)) => last.response.status = 401

\* C4: every dispatch comes from a request that passed verification, every row
\* of the table was written for the message of such a dispatch, and a request
\* that failed verification is not answered with a challenge.
C4_NoPipelineForUnverified ==
    /\ \A d \in DOMAIN dispatches : ~Unverified(dispatches[d].request)
    /\ \A k \in DOMAIN shared_songs : \E d \in DOMAIN dispatches :
         /\ dispatches[d].message.channel = shared_songs[k].channel
         /\ dispatches[d].message.ts = shared_songs[k].message_ts
         /\ shared_songs[k].original_url \in dispatches[d].stored
    /\ (Handled /\ Unverified(last.request)) =>
         (last.response.body = <<>> \/ Head(last.response.body) # "challenge")

\* C4 witness: a message event with a wrong signature was handled after a
\* verified one, and only the verified one has a dispatch.
C4_Witness ==
    /\ Handled
    /\ ~last.request.sigOK
    /\ last.request.body.json
    /\ last.request.body.event.type = "message"
    /\ inbox = <<>>
    /\ Len(dispatches) = 1

\* C5: the request of every dispatch was answered 200 OK, and the answer stays
\* the same at every stage of the dispatch: not yet started, running, ended
\* or failed.
C5_AckIndependentOfPipeline ==
    \A d \in DOMAIN dispatches :
        /\ dispatches[d].ack = [status |-> 200, body |-> <<"OK">>]
        /\ (Handled /\ last.request = dispatches[d].request) =>
              last.response = [status |-> 200, body |-> <<"OK">>]

\* C5 witness: the acknowledgment is there while one dispatch has not completed
\* its first call and another has not moved past its store.
C5_Witness ==
    \E d, e \in DOMAIN dispatches :
        /\ dispatches[d].pc = "lookup" /\ dispatches[d].lookups = 0
        /\ dispatches[e].pc = "store"
        /\ dispatches[d].ack.body = <<"OK">>
        /\ dispatches[e].ack.body = <<"OK">>

\* C6: two deliveries of the same message event do not both get a reply
\* accepted for the same URL.
C6_NoSecondReply ==
    \A d, e \in DOMAIN dispatches :
        (d # e /\ dispatches[d].message = dispatches[e].message) =>
            dispatches[d].replied \cap dispatches[e].replied = {}

\* C7: an exception caught at one URL never fails the dispatch, and a
\* dispatch ends only after the lookup of every match was started.
C7_ExceptionIsolatedPerUrl ==
    \A d \in DOMAIN dispatches :
        /\ dispatches[d].thrown # {} => dispatches[d].pc # "failed"
        /\ dispatches[d].pc = "done" => dispatches[d].lookups = Len(dispatches[d].matches)
        /\ dispatches[d].pc \notin {"done", "failed"} =>
             /\ dispatches[d].i \in DOMAIN dispatches[d].matches
             /\ dispatches[d].lookups \in {dispatches[d].i - 1, dispatches[d].i}

\* C7 witness: the first URL of a message threw and the second was looked up.
C7_Witness ==
    \E d \in DOMAIN dispatches :
        /\ 1 \in dispatches[d].thrown
        /\ Len(dispatches[d].matches) = 2
        /\ dispatches[d].lookups = 2

\* The reply text the claim expects for a lookup body.
ExpectedReply(data) ==
    IF data.youtube # NULL
    THEN << <<":notes: <", "https://song.link/s/abc", ">">>, <<data.youtube>> >>
    ELSE IF data.youtubeMusic # NULL
    THEN << <<":notes: <", "https://song.link/s/abc", ">">>, <<data.youtubeMusic>> >>
    ELSE << <<":notes: <", "https://song.link/s/abc", ">">> >>

\* C8: after a failed store write for a resolved URL the dispatch is at the
\* reply or has made it, with the text it has when the write succeeds; the
\* only other post is the notice about a refused reply.
C8_StoreFailureKeepsReply ==
    \A d \in DOMAIN dispatches :
        LET D == dispatches[d]
        IN  (D.status = 200 /\ Has(D.calls, "store:failed")) =>
                /\ D.pc # "failed"
                /\ \/ D.pc = "post" /\ D.posts = <<>>
                   \/ /\ Len(D.calls) >= 3
                      /\ D.calls[3] = "post:reply"
                      /\ D.posts[1].text = ExpectedReply(D.data)
                      /\ \A k \in 2..Len(D.calls) : k > 3 => D.calls[k] = "post:sendfail"

\* C8 witness: a pass whose store write failed has ended with its reply accepted.
C8_Witness ==
    \E d \in DOMAIN dispatches :
        /\ dispatches[d].pc = "next"
        /\ dispatches[d].calls = <<"lookup", "store:failed", "post:reply">>
        /\ dispatches[d].replied # {}
        /\ dispatches[d].thrown = {}

\* C9: no stored original URL keeps a part of the chat client's wrapping: no
\* angle bracket and no |label.
C9_StoredUrlIsClean ==
    \A k \in DOMAIN shared_songs : \A j \in DOMAIN shared_songs[k].original_url :
        shared_songs[k].original_url[j] \notin {"<", ">", "|"}

\* C10: the reply to a resolved URL has the canonical link in its first line;
\* with a video link it has exactly one more line, which is the video link
\* alone; without one it has no other line.
C10_ReplyText ==
    \A d \in DOMAIN dispatches :
        LET D == dispatches[d]
        IN  Has(D.calls, "post:reply") =>
                LET text == D.posts[1].text
                    video == D.data.youtube # NULL \/ D.data.youtubeMusic # NULL
                IN  /\ \E j \in DOMAIN text[1] : text[1][j] = "https://song.link/s/abc"
                    /\ video => /\ Len(text) = 2
                                /\ text[2] \in {<<D.data.youtube>>, <<D.data.youtubeMusic>>}
                                /\ text[2] # <<NULL>>
                                /\ \A j \in DOMAIN text[1] : text[1][j] # text[2][1]
                    /\ ~video => Len(text) = 1

\* C10 witness: a reply was posted for a body with a video link.
C10_Witness ==
    \E d \in DOMAIN dispatches :
        /\ Has(dispatches[d].calls, "post:reply")
        /\ dispatches[d].data.youtube = NULL
        /\ dispatches[d].data.youtubeMusic # NULL
        /\ Len(dispatches[d].posts[1].text) = 2

\* The fixed fallback templates, as a set.
FallbackTemplates == {fallbackMessages[r] : r \in DOMAIN fallbackMessages}

\* The pass of dispatch record D has ended for a URL whose lookup answered 500
\* while a credential was configured, a query was derived and the search
\* returned a video.
FallbackCase(D) ==
    /\ D.pc = "next"
    /\ D.status = 500
    /\ env.YOUTUBE_API_KEY
    /\ D.searchQuery # <<>>
    /\ D.youtubeUrl # NULL

\* C11: at the end of the pass for a URL whose lookup answered 500, with a
\* credential, a derived query and a search result, the pass has posted one
\* fixed fallback template followed by the video link and has made the store
\* call; a write the database completed for a first share left the row without
\* canonical link, with the search result as video URL and the query as title.
C11_FallbackPostsAndStores ==
    \A d \in DOMAIN dispatches :
        LET D == dispatches[d]
        IN  FallbackCase(D) =>
                /\ Len(D.posts) = 1
                /\ Len(D.posts[1].text) = 2
                /\ Len(D.posts[1].text[1]) = 1
                /\ D.posts[1].text[1][1] \in FallbackTemplates
                /\ D.posts[1].text[2] = <<D.youtubeUrl>>
                /\ Has(D.calls, "store") \/ Has(D.calls, "store:failed")
                /\ (Has(D.calls, "store") /\ D.i = 1 /\ Len(dispatches) = 1) =>
                       \E k \in DOMAIN shared_songs :
                           /\ shared_songs[k].original_url = CurrentUrl(D)
                           /\ shared_songs[k].songlink_url = NULL
                           /\ shared_songs[k].youtube_url = D.youtubeUrl
                           /\ shared_songs[k].title = D.searchQuery

\* The claim of C11 for the passes whose fallback post returned.
FallbackStoresWhenPostReturns ==
    \A d \in DOMAIN dispatches :
        LET D == dispatches[d]
        IN  (FallbackCase(D) /\ D.i \notin D.thrown) =>
                /\ D.calls \in {<<"lookup", "page", "search", "post:fallback", "store">>,
                                <<"lookup", "page", "search", "post:fallback", "store:failed">>}
                /\ D.posts[1].text[1][1] \in FallbackTemplates
                /\ D.posts[1].text[2] = <<D.youtubeUrl>>
                /\ (Has(D.calls, "store") /\ D.i = 1 /\ Len(dispatches) = 1) =>
                       \E k \in DOMAIN shared_songs :
                           /\ shared_songs[k].original_url = CurrentUrl(D)
                           /\ shared_songs[k].songlink_url = NULL
                           /\ shared_songs[k].youtube_url = D.youtubeUrl
                           /\ shared_songs[k].title = D.searchQuery

\* A fallback pass whose post threw: it ended without a store call.
FallbackPostThrewNoStore ==
    \E d \in DOMAIN dispatches :
        /\ FallbackCase(dispatches[d])
        /\ dispatches[d].calls = <<"lookup", "page", "search", "post:fallback">>
        /\ shared_songs = <<>>

\* C12: after a lookup that answered 500 with no credential configured, the
\* pass fetches no page, makes no search and no store call, and posts nothing
\* but the error notice, whose text includes the status code; a single message
\* with that outcome leaves the table empty.
C12_NoCredentialNoFallback ==
    \A d \in DOMAIN dispatches :
        LET D == dispatches[d]
        IN  (D.status = 500 /\ ~env.YOUTUBE_API_KEY) =>
                /\ D.pc \in {"errpost", "next"}
                /\ D.calls \in {<<"lookup">>, <<"lookup", "post:error">>}
                /\ D.pc = "errpost" => D.posts = <<>>
                /\ D.pc = "next" =>
                     /\ D.calls = <<"lookup", "post:error">>
                     /\ Len(D.posts) = 1
                     /\ \E j \in DOMAIN D.posts[1].text[1] :
                            D.posts[1].text[1][j] = ToString(500)
                /\ (D.i = 1 /\ Len(dispatches) = 1) => shared_songs = <<>>

\* C12 witness: without a credential, the pass of a lookup answered 500 has
\* ended after the notice was accepted.
C12_Witness ==
    \E d \in DOMAIN dispatches :
        /\ ~env.YOUTUBE_API_KEY
        /\ dispatches[d].pc = "next"
        /\ dispatches[d].status = 500
        /\ dispatches[d].calls = <<"lookup", "post:error">>
        /\ dispatches[d].thrown = {}
        /\ ~dispatches[d].refused

IsPost(call) ==
    call \in {"post:reply", "post:fallback", "post:error", "post:sendfail"}

\* The kinds of the posts of a pass, in the order they were made.
PostKinds(calls) == SelectSeq(calls, IsPost)

C14_ChallengeEchoed ==
    /\ ( /\ Handled
         /\ last.request.body.json
         /\ ~Unverified(last.request)
         /\ last.request.body.type = "url_verification" ) =>
            /\ last.response = ResponseOf(200, <<"challenge", last.request.body.challenge>>)
            /\ ~last.uncaught
            /\ dispatches = <<>>
            /\ shared_songs = <<>>
    /\ \A d \in DOMAIN dispatches :
         dispatches[d].request.body.type # "url_verification"

\* C14 witness: a verified url_verification request, 300 s old, was answered
\* with its challenge.
C14_Witness ==
    /\ Handled
    /\ ~Unverified(last.request)
    /\ last.request.timestamp = Now - 300
    /\ last.request.body.type = "url_verification"
    /\ last.request.body.challenge = "3eZbrw1aB"
    /\ last.response.body = <<"challenge", "3eZbrw1aB">>

\* C15: a handled request whose body is not JSON was rejected by the handler
\* itself, with a client-error status and no exception left uncaught, and no
\* dispatch was started.
C15_NonJsonCleanRejection ==
    (Handled /\ ~last.request.body.json) =>
        /\ ~last.uncaught
        /\ last.response.status \in 400..499
        /\ dispatches = <<>>

\* The part of C15 that holds: a body that is not JSON starts no dispatch.
NonJsonStartsNoDispatch ==
    (Handled /\ ~last.request.body.json) => (dispatches = <<>> /\ shared_songs = <<>>)

\* C16: with both headers and a correct signature, a timestamp 301 s or more
\* older than now fails verification (the request gets 401 and no dispatch),
\* and a timestamp exactly 300 s old passes it (the request gets 200).
C16_ReplayWindow ==
    ( /\ Handled
      /\ last.request.body.json
      /\ last.request.hasTimestamp
      /\ last.request.hasSignature
      /\ last.request.sigOK ) =>
         /\ Now - last.request.timestamp >= 301 =>
              /\ ~verifySlackRequest(last.request)
              /\ last.response = ResponseOf(401, <<"Invalid signature">>)
              /\ dispatches = <<>>
         /\ Now - last.request.timestamp = 300 =>
              /\ verifySlackRequest(last.request)
              /\ last.response.status = 200

\* C16 witness: a message event 300 s old with a correct signature was
\* answered 200 and its dispatch started.
C16_Witness ==
    /\ Handled
    /\ last.request.timestamp = Now - 300
    /\ last.request.sigOK /\ last.request.hasSignature /\ last.request.hasTimestamp
    /\ last.response = ResponseOf(200, <<"OK">>)
    /\ Len(dispatches) = 1
    /\ dispatches[1].request = last.request

\* A request 302 s old with a correct signature was answered 401.
StaleRequestRejected ==
    /\ Handled
    /\ last.request.timestamp = Now - 302
    /\ last.request.sigOK /\ last.request.hasSignature /\ last.request.hasTimestamp
    /\ last.request.body.json
    /\ last.response.status = 401

\* C17: a pass whose lookup answered 429 never fetches the page of the URL
\* and never calls the video search, with or without the credential.
C17_NoFallbackOnRateLimit ==
    \A d \in DOMAIN dispatches :
        dispatches[d].status = 429 =>
            /\ dispatches[d].pc \notin {"page", "search", "fbpost", "fbstore"}
            /\ ~Has(dispatches[d].calls, "page")
            /\ ~Has(dispatches[d].calls, "search")

\* The part of C17 that holds: without the credential a rate-limited lookup
\* goes straight to the notice.
NoFallbackOnRateLimitWithoutKey ==
    \A d \in DOMAIN dispatches :
        (dispatches[d].status = 429 /\ ~env.YOUTUBE_API_KEY) =>
            /\ dispatches[d].pc \in {"errpost", "next"}
            /\ dispatches[d].calls \in {<<"lookup">>, <<"lookup", "post:error">>}

\* The position in calls of the first entry that is one of the given kinds, or
\* 0 when there is none.
FirstOf(calls, kinds) ==
    IF \E k \in DOMAIN calls : calls[k] \in kinds
    THEN CHOOSE k \in DOMAIN calls :
             /\ calls[k] \in kinds
             /\ \A j \in 1..(k - 1) : calls[j] \notin kinds
    ELSE 0

\* C18: in every pass that makes a store call and posts a reply (the reply to
\* a resolved URL or the fallback reply), the store call comes before the post.
C18_StoreBeforeReply ==
    \A d \in DOMAIN dispatches :
        LET calls == dispatches[d].calls
            store == FirstOf(calls, {"store", "store:failed"})
            post == FirstOf(calls, {"post:reply", "post:fallback"})
        IN  (store # 0 /\ post # 0) => store < post

\* The part of C18 that holds: the reply to a resolved URL is posted after
\* the store call.
StoreBeforeResolvedReply ==
    \A d \in DOMAIN dispatches :
        LET calls == dispatches[d].calls
            store == FirstOf(calls, {"store", "store:failed"})
            post == FirstOf(calls, {"post:reply"})
        IN  post # 0 => (store # 0 /\ store < post)

\* The logs a pass can have while it awaits the call of each position: every
\* call before the awaited one has returned.
LogsAt(pc) ==
    CASE pc = "lookup" -> {<<>>}
      [] pc = "page" -> {<<"lookup">>}
      [] pc = "search" -> {<<"lookup", "page">>}
      [] pc = "fbpost" -> {<<"lookup", "page", "search">>}
      [] pc = "fbstore" -> {<<"lookup", "page", "search", "post:fallback">>}
      [] pc = "errpost" -> {<<"lookup">>, <<"lookup", "page">>, <<"lookup", "page", "search">>}
      [] pc = "store" -> {<<"lookup">>}
      [] pc = "post" -> {<<"lookup", "store">>, <<"lookup", "store:failed">>}
      [] pc = "notice" -> {<<"lookup", "store", "post:reply">>,
                           <<"lookup", "store:failed", "post:reply">>}
      [] OTHER -> {}

\* C19: a dispatch awaits one call at a time and takes its URLs in match
\* order: while it awaits a call, every earlier call of the pass has returned
\* and none was made twice; the lookup of URL i is awaited with nothing of an
\* earlier URL outstanding and after exactly i - 1 lookups; a pass in progress
\* began with the lookup of URL i; and the matches of a text with two links
\* are its links in first-seen order.
C19_SequentialUrls ==
    \A d \in DOMAIN dispatches :
        LET D == dispatches[d]
        IN  /\ D.pc \notin {"next", "done", "failed"} => D.calls \in LogsAt(D.pc)
            /\ \A j, k \in DOMAIN D.calls : D.calls[j] = D.calls[k] => j = k
            /\ D.pc = "lookup" => (D.posts = <<>> /\ D.lookups = D.i - 1)
            /\ D.pc \in {"done", "failed"} => (D.calls = <<>> /\ D.posts = <<>>)
            /\ D.calls # <<>> => (D.calls[1] = "lookup" /\ D.lookups = D.i)
            /\ D.message.text = TTwo =>
                 (CleanUrl(D.matches[1]) = Url1 /\ CleanUrl(D.matches[2]) = Url2)
            /\ D.thrown \subseteq 1..D.lookups

\* C19 witness: the first URL of a message with two links was answered, and
\* the pass of the second awaits its reply post.
C19_Witness ==
    \E d \in DOMAIN dispatches :
        /\ dispatches[d].message.text = TTwo
        /\ dispatches[d].i = 2
        /\ dispatches[d].pc = "post"
        /\ dispatches[d].lookups = 2
        /\ Url1 \in dispatches[d].replied
        /\ Url1 \in dispatches[d].stored

\* C20: a pass in which a post (the reply to a resolved URL, the fallback
\* reply or an error notice) came back with ok false ends, unless a call threw,
\* with the send-failure notice as its last post, carrying the reason.
C20_RefusedPostGetsNotice ==
    \A d \in DOMAIN dispatches :
        LET D == dispatches[d]
        IN  /\ (D.pc = "next" /\ D.refused /\ D.i \notin D.thrown) =>
                 /\ D.calls[Len(D.calls)] = "post:sendfail"
                 /\ D.posts[Len(D.posts)].text[1][1] = "Error: "
            /\ D.pc = "notice" => D.calls[Len(D.calls)] = "post:reply"
            /\ Has(D.calls, "post:sendfail") =>
                 /\ D.pc = "next"
                 /\ D.calls[Len(D.calls)] = "post:sendfail"
                 /\ D.posts[Len(D.posts)] =
                        Payload(D.message, SendFailureText(D.slackError), FALSE)

\* The part of C20 that holds: a refused reply to a resolved URL is followed by
\* the notice with the reason, and the pass ends whatever the notice's outcome.
RefusedResolvedReplyGetsNotice ==
    \A d \in DOMAIN dispatches :
        LET D == dispatches[d]
        IN  /\ D.pc = "notice" => D.calls[Len(D.calls)] = "post:reply"
            /\ Has(D.calls, "post:sendfail") =>
                 /\ D.pc = "next"
                 /\ PostKinds(D.calls) = <<"post:reply", "post:sendfail">>
                 /\ D.posts[2] = Payload(D.message, SendFailureText(D.slackError), FALSE)
                 /\ D.posts[2].text[1][2] \in {"channel_not_found", "Failed to post message"}

\* A fallback reply that came back with ok false: the pass ended with the
\* store call and no notice.
RefusedFallbackNoNotice ==
    \E d \in DOMAIN dispatches :
        /\ dispatches[d].pc = "next"
        /\ dispatches[d].refused
        /\ dispatches[d].calls = <<"lookup", "page", "search", "post:fallback", "store">>

\* C21: after a lookup that answered 500 with a credential configured, a
\* derived query is longer than 3 characters and the video search is called
\* only with a derived query; when the fallback gave no video, the pass ends
\* with exactly one post, the notice that includes the status code, and without
\* a store call; a single message with that outcome leaves the table empty.
C21_EmptyFallbackGetsNotice ==
    \A d \in DOMAIN dispatches :
        LET D == dispatches[d]
        IN  (D.status = 500 /\ env.YOUTUBE_API_KEY) =>
                /\ D.searchQuery # <<>> => TextLen(D.searchQuery) > 3
                /\ (Has(D.calls, "search") \/ D.pc = "search") => D.searchQuery # <<>>
                /\ (D.pc = "next" /\ D.youtubeUrl = NULL) =>
                     /\ D.calls \in {<<"lookup", "page", "post:error">>,
                                     <<"lookup", "page", "search", "post:error">>}
                     /\ Len(D.posts) = 1
                     /\ D.posts[1].text = ErrorText(500)
                     /\ \E j \in DOMAIN D.posts[1].text[1] :
                            D.posts[1].text[1][j] = ToString(500)
                     /\ (D.i = 1 /\ Len(dispatches) = 1) => shared_songs = <<>>

\* C21 witness: with a credential, a lookup answered 500, a query was derived,
\* the search returned no video and the pass ended after the notice.
C21_Witness ==
    \E d \in DOMAIN dispatches :
        /\ env.YOUTUBE_API_KEY
        /\ dispatches[d].pc = "next"
        /\ dispatches[d].status = 500
        /\ dispatches[d].searchQuery = <<"Song Title - Artist">>
        /\ dispatches[d].calls = <<"lookup", "page", "search", "post:error">>
        /\ dispatches[d].thrown = {}

\* A fallback that derived no query: the pass ended without a search call.
NoQueryNoSearch ==
    \E d \in DOMAIN dispatches :
        /\ env.YOUTUBE_API_KEY
        /\ dispatches[d].pc = "next"
        /\ dispatches[d].status = 500
        /\ dispatches[d].searchQuery = <<>>
        /\ dispatches[d].calls = <<"lookup", "page", "post:error">>

\* C22: no step updates or deletes a row: every row of the table is, after any
\* step, at its place with every field as before.
C22_RowsNeverChange ==
    [][ /\ Len(shared_songs') >= Len(shared_songs)
        /\ \A k \in DOMAIN shared_songs : shared_songs'[k] = shared_songs[k] ]_vars

\* C22 witness: the row of a key is the fallback record, and a later pass for
\* the same key, whose lookup succeeded, has made its store call with other
\* values, which the database completed.
C22_Witness ==
    \E d \in DOMAIN dispatches :
        LET D == dispatches[d]
        IN  /\ D.status = 200
            /\ D.calls = <<"lookup", "store">>
            /\ YoutubeUrlOf(D.data) # NULL
            /\ \E k \in DOMAIN shared_songs :
                 /\ shared_songs[k].channel = D.message.channel
                 /\ shared_songs[k].message_ts = D.message.ts
                 /\ shared_songs[k].original_url = CurrentUrl(D)
                 /\ shared_songs[k].songlink_url = NULL
                 /\ shared_songs[k].youtube_url = VideoUrl
            /\ Len(shared_songs) = 1

Ended(D) == D.pc \in {"done", "failed"}

\* C23: when every awaited call settles, every dispatch that has started
\* ends (again and again all started dispatches have ended, and an ended
\* dispatch stays ended); an ended dispatch has started the lookup of each of its matches
\* once; and no step removes a dispatch, moves it back to an earlier match,
\* skips a match or changes one that has ended.
C23_EveryDispatchTerminates ==
    /\ []<>(\A d \in DOMAIN dispatches : Ended(dispatches[d]))
    /\ [](\A d \in DOMAIN dispatches :
            Ended(dispatches[d]) =>
                /\ dispatches[d].lookups = Len(dispatches[d].matches)
                /\ dispatches[d].thrown \subseteq DOMAIN dispatches[d].matches)
    /\ [][\A d \in DOMAIN dispatches :
            /\ d \in DOMAIN dispatches'
            /\ dispatches'[d].matches = dispatches[d].matches
            /\ dispatches'[d].i \in {dispatches[d].i, dispatches[d].i + 1}
            /\ dispatches'[d].lookups \in {dispatches[d].lookups, dispatches[d].lookups + 1}
            /\ Ended(dispatches[d]) => dispatches'[d] = dispatches[d]]_vars

\* C23 witness: a dispatch for a message with two links has ended after two
\* lookups, the first of which threw.
C23_Witness ==
    \E d \in DOMAIN dispatches :
        /\ dispatches[d].pc = "done"
        /\ Len(dispatches[d].matches) = 2
        /\ dispatches[d].lookups = 2
        /\ 1 \in dispatches[d].thrown

\* Texts without a recognized music-platform link.
NoLinkTexts == {<<>>, TNone, TOther, TBare}

\* C24: a dispatch for a message whose text is absent or empty, or has no
\* recognized link, is ended from its start without error, and has made no
\* lookup, no post and no store call; alone, it leaves the table empty.
C24_NoLinkNoEffect ==
    \A d \in DOMAIN dispatches :
        LET D == dispatches[d]
        IN  ( \/ D.message.textKind = "absent"
              \/ D.message.textKind = "string" /\ D.message.text \in NoLinkTexts ) =>
                /\ D.pc = "done"
                /\ D.matches = <<>>
                /\ D.lookups = 0
                /\ D.calls = <<>> /\ D.posts = <<>>
                /\ D.replied = {} /\ D.stored = {} /\ D.thrown = {}
                /\ Len(dispatches) = 1 => shared_songs = <<>>

\* C24 witness: a verified message with a link to a domain that is no music
\* platform was acknowledged and its dispatch has ended.
C24_Witness ==
    /\ Len(dispatches) = 1
    /\ dispatches[1].message.text = TOther
    /\ dispatches[1].pc = "done"
    /\ dispatches[1].ack = ResponseOf(200, <<"OK">>)
    /\ inbox = <<>>

\* A dispatch for a message without text has ended.
NoTextDispatchEnded ==
    /\ Len(dispatches) = 1
    /\ dispatches[1].message.textKind = "absent"
    /\ dispatches[1].pc = "done"

\* The video link the claim expects for a lookup body.
ExpectedVideo(data) ==
    CASE data.youtube # NULL -> data.youtube
      [] data.youtube = NULL /\ data.youtubeMusic # NULL -> data.youtubeMusic
      [] OTHER -> NULL

\* C25: in a pass whose lookup succeeded, the second line of the reply is the
\* youtube link when the body has one, otherwise the youtubeMusic link, and
\* the reply has no second line when it has neither; the row that the store
\* call of a first share inserted has the same value as its video URL.
C25_VideoLinkPreference ==
    \A d \in DOMAIN dispatches :
        LET D == dispatches[d]
            video == ExpectedVideo(D.data)
        IN  D.status = 200 =>
                /\ Has(D.calls, "post:reply") =>
                     /\ video # NULL => D.posts[1].text[2] = <<video>>
                     /\ video = NULL => Len(D.posts[1].text) = 1
                /\ (Has(D.calls, "store") /\ D.i = 1 /\ Len(dispatches) = 1) =>
                     /\ Len(shared_songs) = 1
                     /\ shared_songs[1].youtube_url = video
                     /\ shared_songs[1].songlink_url = PageUrl

\* C25 witness: a body with both video links was stored and answered with
\* the youtube link.
C25_Witness ==
    /\ Len(dispatches) = 1
    /\ dispatches[1].i = 1
    /\ dispatches[1].data.youtube # NULL
    /\ dispatches[1].data.youtubeMusic # NULL
    /\ dispatches[1].calls = <<"lookup", "store", "post:reply">>
    /\ dispatches[1].posts[1].text[2] = <<dispatches[1].data.youtube>>
    /\ shared_songs[1].youtube_url = dispatches[1].data.youtube

\* C26: a verified event_callback whose event has a bot_id, or is not of
\* type message, is answered 200 OK and starts nothing: no dispatch exists
\* after it and the table is empty; and every dispatch there is comes from an
\* event of type message without bot_id.
C26_BotAndOtherEventsIgnored ==
    /\ ( /\ Handled
         /\ last.request.body.json
         /\ ~Unverified(last.request)
         /\ last.request.body.type = "event_callback"
         /\ \/ last.request.body.event.bot_id
            \/ last.request.body.event.type # "message" ) =>
            /\ last.response = ResponseOf(200, <<"OK">>)
            /\ ~last.uncaught
            /\ dispatches = <<>>
            /\ shared_songs = <<>>
    /\ \A d \in DOMAIN dispatches :
         /\ dispatches[d].message.type = "message"
         /\ ~dispatches[d].message.bot_id
         /\ dispatches[d].request.body.type = "event_callback"

\* C26 witness: a verified message event with a music link and a bot_id was
\* acknowledged.
C26_Witness ==
    /\ Handled
    /\ ~Unverified(last.request)
    /\ last.request.body.type = "event_callback"
    /\ last.request.body.event.type = "message"
    /\ last.request.body.event.bot_id
    /\ last.request.body.event.text = TPlain
    /\ last.response = ResponseOf(200, <<"OK">>)
    /\ inbox = <<>>

\* A verified reaction_added event was acknowledged.
OtherEventAcknowledged ==
    /\ Handled
    /\ ~Unverified(last.request)
    /\ last.request.body.event.type = "reaction_added"
    /\ last.response = ResponseOf(200, <<"OK">>)

IsPrimaryPost(call) == call \in {"post:reply", "post:fallback", "post:error"}

\* The primary posts of a pass, in the order they were made.
PrimaryPosts(calls) == SelectSeq(calls, IsPrimaryPost)

\* C27: a pass that has ended without a throw has made exactly one primary
\* post: the reply, the fallback reply or the error notice (rate limit or
\* status code), which is the first post of the pass, in the thread of the
\* message.
C27_OnePrimaryReplyPerUrl ==
    \A d \in DOMAIN dispatches :
        LET D == dispatches[d]
        IN  (D.pc = "next" /\ D.i \notin D.thrown) =>
                /\ Len(PrimaryPosts(D.calls)) = 1
                /\ Len(D.posts) >= 1
                /\ PostKinds(D.calls)[1] = PrimaryPosts(D.calls)[1]
                /\ D.posts[1].thread_ts = D.message.ts
                /\ D.posts[1].text \in
                     {ReplyText(PageUrl, YoutubeUrlOf(D.data)), ErrorText(D.status)}
                     \cup {FallbackText(fallbackMessages[r], D.youtubeUrl) :
                             r \in DOMAIN fallbackMessages}

\* C27 witness: both passes of a message with two links have ended without a
\* throw, the second with the status-code notice as its one post.
C27_Witness ==
    \E d \in DOMAIN dispatches :
        /\ dispatches[d].pc = "next"
        /\ dispatches[d].i = 2
        /\ dispatches[d].thrown = {}
        /\ dispatches[d].status = 500
        /\ PostKinds(dispatches[d].calls) = <<"post:error">>
        /\ Url1 \in dispatches[d].replied

\* C28: a pass makes at most two posts; a second post is the send-failure
\* notice after the reply to a resolved URL; and a pass that has posted the
\* notice has ended, whatever the notice's own outcome.
C28_AtMostTwoPostsPerUrl ==
    \A d \in DOMAIN dispatches :
        LET D == dispatches[d]
            kinds == PostKinds(D.calls)
        IN  /\ Len(D.posts) <= 2
            /\ Len(kinds) = Len(D.posts)
            /\ Len(kinds) = 2 => kinds = <<"post:reply", "post:sendfail">>
            /\ Len(kinds) = 1 => kinds[1] # "post:sendfail"
            /\ Has(D.calls, "post:sendfail") =>
                 /\ D.pc = "next"
                 /\ D.calls[Len(D.calls)] = "post:sendfail"

\* C28 witness: a pass has ended after its reply was refused and the notice
\* about it was posted and returned.
C28_Witness ==
    \E d \in DOMAIN dispatches :
        /\ dispatches[d].pc = "next"
        /\ dispatches[d].i \notin dispatches[d].thrown
        /\ Len(dispatches[d].posts) = 2
        /\ dispatches[d].slackError = "channel_not_found"
        /\ dispatches[d].posts[2].text = SendFailureText("channel_not_found")

\* The queries extractSearchQuery can derive from the pages of the model.
DerivedQueries == {SearchQueryOf(t) : t \in PageTitles} \ {<<>>}

\* C29: every row has either the canonical link of a successful lookup, or no
\* canonical link and then a video URL and a derived search query as title; a
\* pass makes a store call only after a successful lookup or a search that
\* returned a video, and the row a first share's fallback store inserted has
\* the video and the query of that pass.
C29_RecordProvenance ==
    /\ \A k \in DOMAIN shared_songs :
         LET row == shared_songs[k]
         IN  \/ /\ row.songlink_url = PageUrl
                /\ \E data \in LookupBodies :
                     /\ row.youtube_url = YoutubeUrlOf(data)
                     /\ row.title = SongTitleOf(data)
             \/ /\ row.songlink_url = NULL
                /\ row.youtube_url = VideoUrl
                /\ row.title \in DerivedQueries
    /\ \A d \in DOMAIN dispatches :
         LET D == dispatches[d]
         IN  /\ (Has(D.calls, "store") \/ Has(D.calls, "store:failed")
                   \/ D.pc \in {"store", "fbstore"}) =>
                  \/ D.status = 200
                  \/ D.status \in FailStatuses /\ D.youtubeUrl # NULL
                                               /\ D.searchQuery \in DerivedQueries
             /\ (D.status \in FailStatuses /\ Has(D.calls, "store")
                   /\ D.i = 1 /\ Len(dispatches) = 1) =>
                  /\ Len(shared_songs) = 1
                  /\ shared_songs[1].songlink_url = NULL
                  /\ shared_songs[1].youtube_url = D.youtubeUrl
                  /\ shared_songs[1].title = D.searchQuery
             /\ D.stored # {} => Len(shared_songs) >= 1

\* C29 witness: the table holds a fallback record and the record of a
\* successful lookup.
C29_Witness ==
    \E j, k \in DOMAIN shared_songs :
        /\ shared_songs[j].songlink_url = NULL
        /\ shared_songs[j].title = <<"Song Title - Artist">>
        /\ shared_songs[k].songlink_url = PageUrl

\* The original_url values the live dispatch uses for the matches of D.
LiveUrls(D) == {CleanUrl(D.matches[k]) : k \in DOMAIN D.matches}

\* C30: for the text of every dispatched message the live dispatch and the
\* backfill script derive the same original URLs, and every URL the dispatch
\* has stored is one the script derives from that text, so that the script's
\* INSERT OR IGNORE for the share finds its key in the table.
C30_BackfillKeyEqualsLiveKey ==
    \A d \in DOMAIN dispatches :
        LET D == dispatches[d]
        IN  D.message.textKind = "string" =>
                /\ LiveUrls(D) = BackfillUrls(D.message.text)
                /\ \A url \in D.stored : url \in BackfillUrls(D.message.text)

\* The part of C30 that holds: for a text in which no link has a label, the
\* two derive the same original URLs.
BackfillAgreesWithoutLabel ==
    \A d \in DOMAIN dispatches :
        LET D == dispatches[d]
        IN  (D.message.textKind = "string" /\ D.message.text # TLabel) =>
                LiveUrls(D) = BackfillUrls(D.message.text)

\* A labelled link was stored by the live dispatch under a key that the script
\* does not derive: the script's insert for the share adds a second row.
LabelledShareStoredTwice ==
    \E d \in DOMAIN dispatches :
        LET D == dispatches[d]
        IN  /\ D.message.text = TLabel
            /\ D.pc = "done"
            /\ D.stored = {Url1 \o <<"|", "Track">>}
            /\ BackfillUrls(TLabel) = {Url1}
            /\ InsertOrIgnore(shared_songs,
                   SharedSong(D.message, Url1, NULL, NULL, <<>>)).result = "inserted"

====
